---------------------------- MODULE Spec2Model ----------------------------
(***************************************************************************)
(* A model of the CHIP-8 interpreter of src/chip8.c: the machine record    *)
(* chip8_t, init_chip8, handle_input, emulate_instruction and the main     *)
(* loop that drives them.                                                  *)
(*                                                                         *)
(* Encoding of the C state:                                                *)
(*   - chip8 is the chip8_t object of main (line 807), one record.         *)
(*   - chip8.ram is sparse: a function from the addresses that have been   *)
(*     written (font, program) to their byte; every other address of the   *)
(*     4096-byte array holds the 0 of the `chip8 = {0}` initializer.       *)
(*   - chip8.display is the set of indices of the cells that are true.     *)
(*   - chip8.stack_pointer is the index stack_pointer - &stack[0].         *)
(*   - loc is the position of main; fault records the first undefined      *)
(*     behaviour (an access outside an array).  C gives no meaning to the  *)
(*     execution after it, so the model records the immediate outcome,     *)
(*     chosen nondeterministically, and follows the run no further.        *)
(*   - rom_file is the file named by argv[1]; calls and last_draw are      *)
(*     history variables (the calls that have not returned; the DXYN that  *)
(*     the latest step executed, if it was one), read by no action's       *)
(*     guard.                                                              *)
(***************************************************************************)
EXTENDS Integers, Sequences, FiniteSets

VARIABLES chip8, loc, fault, rom_file, calls, last_draw

vars == <<chip8, loc, fault, rom_file, calls, last_draw>>

-----------------------------------------------------------------------------
(* Program constants *)

RAM_SIZE == 4096
DISPLAY_SIZE == 2048
STACK_SIZE == 12
NUM_REGS == 16
NUM_KEYS == 16
ENTRY_POINT == 512
WINDOW_WIDTH == 64
WINDOW_HEIGHT == 32

(* Bounds of the model *)

\* the host presses and releases only the keys 0..MaxKey of the keypad
MaxKey == 1
\* events SDL_PollEvent delivers during one call of handle_input
MaxEvents == 1
\* words of a generated program before its closing jump
RomWords == 2

-----------------------------------------------------------------------------
(* Fixed-width arithmetic *)

U8(n) == n % 256

U16(n) == n % 65536

Bit(a, k) == (a \div (2 ^ k)) % 2

\* a & b on bytes
BitAnd(a, b) ==
    LET f[k \in 0..8] ==
            IF k = 8 THEN 0 ELSE Bit(a, k) * Bit(b, k) * (2 ^ k) + f[k + 1]
    IN  f[0]

\* a | b
BitOr(a, b) ==
    LET f[k \in 0..8] ==
            IF k = 8 THEN 0
            ELSE (IF Bit(a, k) + Bit(b, k) > 0 THEN 2 ^ k ELSE 0) + f[k + 1]
    IN  f[0]

\* a ^ b
BitXor(a, b) ==
    LET f[k \in 0..8] ==
            IF k = 8 THEN 0
            ELSE (IF Bit(a, k) # Bit(b, k) THEN 2 ^ k ELSE 0) + f[k + 1]
    IN  f[0]

-----------------------------------------------------------------------------
(* The machine record *)

font ==
    << 240, 144, 144, 144, 240,     \* 0
        32,  96,  32,  32, 112,     \* 1
       240,  16, 240, 128, 240,     \* 2
       240,  16, 240,  16, 240,     \* 3
       144, 144, 240,  16,  16,     \* 4
       240, 128, 240,  16, 240,     \* 5
       240, 128, 240, 144, 240,     \* 6
       240,  16,  32,  64,  64,     \* 7
       240, 144, 240, 144, 240,     \* 8
       240, 144, 240,  16, 240,     \* 9
       240, 144, 240, 144, 144,     \* A
       224, 144, 224, 144, 224,     \* B
       240, 128, 128, 128, 240,     \* C
       224, 144, 144, 144, 224,     \* D
       240, 128, 240, 128, 240,     \* E
       240, 128, 240, 128, 128 >>   \* F

\* instruction_t, lines 546-550: a mask of the low bits is the remainder, a
\* right shift the quotient
Decode(opcode) ==
    [opcode |-> opcode,
     NNN    |-> opcode % 4096,
     NN     |-> opcode % 256,
     N      |-> opcode % 16,
     X      |-> (opcode \div 256) % 16,
     Y      |-> (opcode \div 16) % 16]

\* chip8_t chip8 = {0}: QUIT is the enumerator 0
ZeroChip8 ==
    [state         |-> "QUIT",
     ram           |-> <<>>,
     display       |-> {},
     stack         |-> [i \in 0..(STACK_SIZE - 1) |-> 0],
     stack_pointer |-> 0,
     V             |-> [r \in 0..(NUM_REGS - 1) |-> 0],
     I             |-> 0,
     PC            |-> 0,
     delay_timer   |-> 0,
     sound_timer   |-> 0,
     keypad        |-> [k \in 0..(NUM_KEYS - 1) |-> FALSE],
     inst          |-> Decode(0)]

\* chip8->ram[a], a inside the array
RamAt(c, a) == IF a \in DOMAIN c.ram THEN c.ram[a] ELSE 0

\* memcpy(&chip8->ram[0], font, sizeof(font))
LoadFont(c) ==
    [c EXCEPT !.ram = [a \in 0..(Len(font) - 1) |-> font[a + 1]]]

\* fread(&chip8->ram[entry_point], rom_size, 1, rom)
LoadRom(c, bytes) ==
    [c EXCEPT !.ram =
        [a \in (DOMAIN c.ram) \cup (ENTRY_POINT..(ENTRY_POINT + Len(bytes) - 1)) |->
            IF a >= ENTRY_POINT THEN bytes[a - ENTRY_POINT + 1] ELSE c.ram[a]]]

\* whether init_chip8 returns true for the file: it exists, is not larger
\* than the memory after the entry point, and fread reads one item of
\* rom_size bytes (fread returns 0 items for an empty file)
RomLoads(file) ==
    /\ file.exists
    /\ Len(file.bytes) <= RAM_SIZE - ENTRY_POINT
    /\ Len(file.bytes) > 0

\* init_chip8
InitChip8(c, file) ==
    IF RomLoads(file)
    THEN [LoadRom(LoadFont(c), file.bytes) EXCEPT
              !.state = "RUNNING",
              !.PC = ENTRY_POINT,
              !.stack_pointer = 0]
    ELSE LoadFont(c)

-----------------------------------------------------------------------------
(* handle_input *)

\* the qwerty key that stands for each keypad index (lines 247-265)
KeySym ==
    [k \in 0..(NUM_KEYS - 1) |->
        <<"x", "1", "2", "3", "q", "w", "e", "a", "s", "d", "z", "c", "4", "r", "f", "v">>[k + 1]]

\* the keypad index a key symbol is mapped to, -1 for an unmapped one
KeyIndex(sym) ==
    IF \E k \in 0..(NUM_KEYS - 1) : KeySym[k] = sym
    THEN CHOOSE k \in 0..(NUM_KEYS - 1) : KeySym[k] = sym
    ELSE -1

\* the events the host can deliver
Events ==
    {[type |-> "SDL_QUIT", sym |-> "none"],
     [type |-> "SDL_KEYDOWN", sym |-> "ESCAPE"],
     [type |-> "SDL_KEYDOWN", sym |-> "SPACE"]}
    \cup {[type |-> t, sym |-> KeySym[k]] :
             t \in {"SDL_KEYDOWN", "SDL_KEYUP"}, k \in 0..MaxKey}

RECURSIVE SeqsUpTo(_, _)
\* the sequences over S of length at most n
SeqsUpTo(S, n) ==
    IF n = 0 THEN {<<>>}
    ELSE LET shorter == SeqsUpTo(S, n - 1)
         IN  shorter \cup {Append(q, e) : q \in shorter, e \in S}

\* what SDL_PollEvent may deliver during one call of handle_input
EventBatches == SeqsUpTo(Events, MaxEvents)

\* case SDLK_SPACE (lines 236-244)
TogglePause(c) ==
    IF c.state = "RUNNING"
    THEN [c EXCEPT !.state = "PAUSED"]
    ELSE [c EXCEPT !.state = "RUNNING"]

\* one event of the switch; done says that handle_input returns
HandleEvent(c, e) ==
    CASE e.type = "SDL_QUIT" ->
            [c |-> [c EXCEPT !.state = "QUIT"], done |-> TRUE]
      [] e.type = "SDL_KEYDOWN" /\ e.sym = "ESCAPE" ->
            [c |-> [c EXCEPT !.state = "QUIT"], done |-> TRUE]
      [] e.type = "SDL_KEYDOWN" /\ e.sym = "SPACE" ->
            [c |-> TogglePause(c), done |-> TRUE]
      [] e.type = "SDL_KEYDOWN" /\ KeyIndex(e.sym) >= 0 ->
            [c |-> [c EXCEPT !.keypad[KeyIndex(e.sym)] = TRUE], done |-> FALSE]
      [] e.type = "SDL_KEYUP" /\ KeyIndex(e.sym) >= 0 ->
            [c |-> [c EXCEPT !.keypad[KeyIndex(e.sym)] = FALSE], done |-> FALSE]
      [] OTHER ->
            [c |-> c, done |-> FALSE]

RECURSIVE HandleInput(_, _)
\* while(SDL_PollEvent(&event)) over the events delivered
HandleInput(c, evs) ==
    IF evs = <<>> THEN c
    ELSE LET r == HandleEvent(c, Head(evs))
         IN  IF r.done THEN r.c ELSE HandleInput(r.c, Tail(evs))

-----------------------------------------------------------------------------
(* emulate_instruction *)

(***************************************************************************)
(* Each operator below takes the machine c after the fetch (inst filled    *)
(* in, PC already advanced) and gives the machine after the opcode's case. *)
(* o holds what the step reads from outside the program: rnd is rand(),    *)
(* and word, key and sprite are the values found outside stack, keypad and *)
(* ram when an index is out of range.                                      *)
(***************************************************************************)

VX(c) == c.V[c.inst.X]

VY(c) == c.V[c.inst.Y]

SetV(c, r, v) == [c EXCEPT !.V[r] = v]

Skip(c) == [c EXCEPT !.PC = U16(c.PC + 2)]

\* 00E0 that clears the first row only
OpClearScreen_FirstRow(c) == [c EXCEPT !.display = c.display \ (0..(WINDOW_WIDTH - 1))]

\* 00E0: memset(&chip8->display[0], false, sizeof(chip8->display))
OpClearScreen(c) == [c EXCEPT !.display = {}]

\* 00EE: chip8->PC = *--chip8->stack_pointer
OpReturn(c, o) ==
    LET sp == c.stack_pointer - 1
    IN  [c EXCEPT !.stack_pointer = sp,
                  !.PC = IF sp \in 0..(STACK_SIZE - 1) THEN c.stack[sp] ELSE o.word]

\* case 0x00
Op0(c, o) ==
    IF c.inst.NNN = 224 THEN OpClearScreen(c)
    ELSE IF c.inst.NN = 238 THEN OpReturn(c, o)
    ELSE c

\* 1NNN
OpJump(c) == [c EXCEPT !.PC = c.inst.NNN]

\* 2NNN that stacks the address of the call itself
OpCall_PushesCallSite(c) ==
    LET sp == c.stack_pointer
    IN  [c EXCEPT !.stack = IF sp \in 0..(STACK_SIZE - 1)
                            THEN [c.stack EXCEPT ![sp] = U16(65536 + c.PC - 2)]
                            ELSE c.stack,
                  !.stack_pointer = sp + 1,
                  !.PC = c.inst.NNN]

\* 2NNN: *chip8->stack_pointer++ = chip8->PC; a store at stack[12] lands
\* outside the array and leaves the 12 entries as they are
OpCall(c) ==
    LET sp == c.stack_pointer
    IN  [c EXCEPT !.stack = IF sp \in 0..(STACK_SIZE - 1)
                            THEN [c.stack EXCEPT ![sp] = c.PC]
                            ELSE c.stack,
                  !.stack_pointer = sp + 1,
                  !.PC = c.inst.NNN]

\* 3XNN
OpSkipEqNN(c) == IF VX(c) = c.inst.NN THEN Skip(c) ELSE c

\* 4XNN
OpSkipNeNN(c) == IF VX(c) # c.inst.NN THEN Skip(c) ELSE c

\* case 0x05
OpSkipEqVY(c) == IF VX(c) = VY(c) THEN Skip(c) ELSE c

\* 6XNN
OpSetNN(c) == SetV(c, c.inst.X, c.inst.NN)

\* 7XNN that stores the carry in VF
OpAddNN_SetsCarry(c) ==
    SetV(SetV(c, 15, IF VX(c) + c.inst.NN > 255 THEN 1 ELSE 0),
         c.inst.X, U8(VX(c) + c.inst.NN))

\* 7XNN
OpAddNN(c) == SetV(c, c.inst.X, U8(VX(c) + c.inst.NN))

\* 8XY4: the flag is stored first, the sum reads the registers after it
OpAddVY(c) ==
    LET f == IF U16(VX(c) + VY(c)) > 255 THEN SetV(c, 15, 1) ELSE c
    IN  SetV(f, f.inst.X, U8(VX(f) + VY(f)))

\* 8XY5
OpSubVY(c) ==
    LET f == IF VX(c) >= VY(c) THEN SetV(c, 15, 1) ELSE c
    IN  SetV(f, f.inst.X, U8(256 + VX(f) - VY(f)))

\* 8XY6 that shifts VY into VX
OpShiftRight_FromVY(c) ==
    LET f == SetV(c, 15, BitAnd(VY(c), 1))
    IN  SetV(f, f.inst.X, VY(c) \div 2)

\* 8XY6
OpShiftRight(c) ==
    LET f == SetV(c, 15, BitAnd(VX(c), 1))
    IN  SetV(f, f.inst.X, VX(f) \div 2)

\* 8XY7
OpSubnVY(c) ==
    LET f == IF VX(c) <= VY(c) THEN SetV(c, 15, 1) ELSE c
    IN  SetV(f, f.inst.X, U8(256 + VY(f) - VX(f)))

\* 8XYE
OpShiftLeft(c) ==
    LET f == SetV(c, 15, BitAnd(VX(c), 128) \div 128)
    IN  SetV(f, f.inst.X, U8(VX(f) * 2))

\* case 0x08
Op8(c) ==
    CASE c.inst.N = 0  -> SetV(c, c.inst.X, VY(c))
      [] c.inst.N = 1  -> SetV(c, c.inst.X, BitOr(VX(c), VY(c)))
      [] c.inst.N = 2  -> SetV(c, c.inst.X, BitAnd(VX(c), VY(c)))
      [] c.inst.N = 3  -> SetV(c, c.inst.X, BitXor(VX(c), VY(c)))
      [] c.inst.N = 4  -> OpAddVY(c)
      [] c.inst.N = 5  -> OpSubVY(c)
      [] c.inst.N = 6  -> OpShiftRight(c)
      [] c.inst.N = 7  -> OpSubnVY(c)
      [] c.inst.N = 14 -> OpShiftLeft(c)
      [] OTHER         -> c

\* case 0x09
OpSkipNeVY(c) == IF VX(c) # VY(c) THEN Skip(c) ELSE c

\* ANNN
OpSetI(c) == [c EXCEPT !.I = c.inst.NNN]

\* BNNN
OpJumpV0(c) == [c EXCEPT !.PC = U16(c.inst.NNN + c.V[0])]

\* CXNN without the mask
OpRandom_NoMask(c, o) == SetV(c, c.inst.X, o.rnd % 256)

\* CXNN
OpRandom(c, o) == SetV(c, c.inst.X, BitAnd(o.rnd % 256, c.inst.NN))

\* a sprite whose every row is the byte at I
SpriteData_FirstRow(c, i, o) ==
    IF c.I < RAM_SIZE THEN RamAt(c, c.I) ELSE o.sprite[i]

\* chip8->ram[chip8->I + i]
SpriteData(c, i, o) ==
    IF c.I + i < RAM_SIZE THEN RamAt(c, c.I + i) ELSE o.sprite[i]

RECURSIVE DrawRow(_, _, _, _, _)
\* for(int8_t j = 7; j >= 0; j--): d is [display, VF] so far
DrawRow(d, sprite_data, X_coord, Y_coord, j) ==
    LET pixel == Y_coord * WINDOW_WIDTH + X_coord
        sprite_bit == BitAnd(sprite_data, 2 ^ j) # 0
        lit == pixel \in d.display
        d1 == [display |-> IF sprite_bit
                           THEN (IF lit THEN d.display \ {pixel}
                                        ELSE d.display \cup {pixel})
                           ELSE d.display,
               VF      |-> IF sprite_bit /\ lit THEN 1 ELSE d.VF]
    IN  IF X_coord + 1 >= WINDOW_WIDTH THEN d1
        ELSE IF j = 0 THEN d1
        ELSE DrawRow(d1, sprite_data, X_coord + 1, Y_coord, j - 1)

RECURSIVE DrawRows(_, _, _, _, _, _)
\* for(uint8_t i = 0; i < chip8->inst.N; i++); VF is 0 or 1 after every
\* row, and the test of it only has TLC evaluate a row before it begins the
\* next one
DrawRows(d, c, o, orig_X, Y_coord, i) ==
    IF i >= c.inst.N THEN d
    ELSE LET d1 == DrawRow(d, SpriteData(c, i, o), orig_X, Y_coord, 7)
         IN  IF Y_coord + 1 >= WINDOW_HEIGHT \/ d1.VF \notin {0, 1} THEN d1
             ELSE DrawRows(d1, c, o, orig_X, Y_coord + 1, i + 1)

\* DXYN that starts at (VX, VY) as they are, not reduced to the display
OpDraw_StartsAtVX(c, o) ==
    LET d == DrawRows([display |-> c.display, VF |-> 0], c, o, VX(c), VY(c), 0)
    IN  [c EXCEPT !.V[15] = d.VF, !.display = d.display]

\* DXYN that leaves VF at the 0 of line 698
OpDraw_NoCollision(c, o) ==
    LET X_coord == VX(c) % WINDOW_WIDTH
        Y_coord == VY(c) % WINDOW_HEIGHT
        d == DrawRows([display |-> c.display, VF |-> 0], c, o, X_coord, Y_coord, 0)
    IN  [c EXCEPT !.V[15] = 0, !.display = d.display]

\* DXYN
OpDraw(c, o) ==
    LET X_coord == VX(c) % WINDOW_WIDTH
        Y_coord == VY(c) % WINDOW_HEIGHT
        d == DrawRows([display |-> c.display, VF |-> 0], c, o, X_coord, Y_coord, 0)
    IN  [c EXCEPT !.V[15] = d.VF, !.display = d.display]

\* chip8->keypad[chip8->V[chip8->inst.X]]
KeyState(c, o) ==
    IF VX(c) < NUM_KEYS THEN c.keypad[VX(c)] ELSE o.key

\* case 0x0E
OpE(c, o) ==
    IF c.inst.NN = 158 THEN (IF KeyState(c, o) THEN Skip(c) ELSE c)
    ELSE IF c.inst.NN = 161 THEN (IF ~KeyState(c, o) THEN Skip(c) ELSE c)
    ELSE c

\* FX0A without the rewind of PC
OpWaitKey_NoRewind(c) ==
    LET pressed == {i \in 0..(NUM_KEYS - 1) : c.keypad[i]}
    IN  IF pressed # {}
        THEN SetV(c, c.inst.X, CHOOSE i \in pressed : \A k \in pressed : i <= k)
        ELSE c

\* FX0A that releases the key it has stored
OpWaitKey_ReleasesKey(c) ==
    LET pressed == {i \in 0..(NUM_KEYS - 1) : c.keypad[i]}
        key == CHOOSE i \in pressed : \A k \in pressed : i <= k
    IN  IF pressed # {}
        THEN [SetV(c, c.inst.X, key) EXCEPT !.keypad[key] = FALSE]
        ELSE [c EXCEPT !.PC = U16(65536 + c.PC - 2)]

\* FX0A
OpWaitKey(c) ==
    LET pressed == {i \in 0..(NUM_KEYS - 1) : c.keypad[i]}
    IN  IF pressed # {}
        THEN SetV(c, c.inst.X, CHOOSE i \in pressed : \A k \in pressed : i <= k)
        ELSE [c EXCEPT !.PC = U16(65536 + c.PC - 2)]

\* FX1E
OpAddI(c) == [c EXCEPT !.I = U16(c.I + VX(c))]

\* FX07
OpGetDelay(c) == SetV(c, c.inst.X, c.delay_timer)

\* FX15
OpSetDelay(c) == [c EXCEPT !.delay_timer = VX(c)]

\* FX18
OpSetSound(c) == [c EXCEPT !.sound_timer = VX(c)]

\* FX29 for glyphs of 4 rows
OpFontI_FourRows(c) == [c EXCEPT !.I = U16(VX(c) * 4)]

\* FX29
OpFontI(c) == [c EXCEPT !.I = U16(VX(c) * 5)]

\* case 0x0F
OpF(c) ==
    CASE c.inst.NN = 10 -> OpWaitKey(c)
      [] c.inst.NN = 30 -> OpAddI(c)
      [] c.inst.NN = 7  -> OpGetDelay(c)
      [] c.inst.NN = 21 -> OpSetDelay(c)
      [] c.inst.NN = 24 -> OpSetSound(c)
      [] c.inst.NN = 41 -> OpFontI(c)
      [] OTHER          -> c

\* (opcode >> 12) & 0x0F
TopNibble(opcode) == (opcode \div 4096) % 16

\* switch((chip8->inst.opcode >> 12) & 0x0F)
Execute(c, o) ==
    LET n == TopNibble(c.inst.opcode)
    IN  CASE n = 0  -> Op0(c, o)
          [] n = 1  -> OpJump(c)
          [] n = 2  -> OpCall(c)
          [] n = 3  -> OpSkipEqNN(c)
          [] n = 4  -> OpSkipNeNN(c)
          [] n = 5  -> OpSkipEqVY(c)
          [] n = 6  -> OpSetNN(c)
          [] n = 7  -> OpAddNN(c)
          [] n = 8  -> Op8(c)
          [] n = 9  -> OpSkipNeVY(c)
          [] n = 10 -> OpSetI(c)
          [] n = 11 -> OpJumpV0(c)
          [] n = 12 -> OpRandom(c, o)
          [] n = 13 -> OpDraw(c, o)
          [] n = 14 -> OpE(c, o)
          [] n = 15 -> OpF(c)

\* chip8->ram[a] of the fetch; b is the byte found at an address past the array
FetchByte(c, a, b) == IF a < RAM_SIZE THEN RamAt(c, a) ELSE b

\* lines 542-550: the opcode at PC, PC pre-incremented, the fields filled in
Fetch(c, b1, b2) ==
    LET opcode == FetchByte(c, c.PC, b1) * 256 + FetchByte(c, c.PC + 1, b2)
    IN  [c EXCEPT !.inst = Decode(opcode), !.PC = U16(c.PC + 2)]

\* emulate_instruction
EmulateInstruction(c, b1, b2, o) == Execute(Fetch(c, b1, b2), o)

-----------------------------------------------------------------------------
(* Accesses outside an array *)

\* the fetch reads ram[PC] and ram[PC + 1]
FetchOutside(c) == c.PC + 1 >= RAM_SIZE

\* f is the machine after the fetch
IsReturn(f) ==
    TopNibble(f.inst.opcode) = 0 /\ f.inst.NNN # 224 /\ f.inst.NN = 238

IsCall(f) == TopNibble(f.inst.opcode) = 2

IsDraw(f) == TopNibble(f.inst.opcode) = 13

IsKeySkip(f) == TopNibble(f.inst.opcode) = 14 /\ f.inst.NN \in {158, 161}

\* the rows whose sprite byte DXYN reads: the loop leaves after the row
\* that reaches the bottom edge
RowsRead(f) ==
    {i \in 0..(f.inst.N - 1) : (VY(f) % WINDOW_HEIGHT) + i < WINDOW_HEIGHT}

\* the rows whose sprite byte lies past the end of ram
RowsOutside(f) == {i \in RowsRead(f) : f.I + i >= RAM_SIZE}

\* the first access outside an array that the step on c makes, f being c
\* after the fetch
FaultOf(c, f) ==
    CASE FetchOutside(c) -> "fetch_outside_ram"
      [] IsReturn(f) /\ f.stack_pointer - 1 \notin 0..(STACK_SIZE - 1) -> "stack_underflow"
      [] IsCall(f) /\ f.stack_pointer \notin 0..(STACK_SIZE - 1) -> "stack_overflow"
      [] IsKeySkip(f) /\ VX(f) >= NUM_KEYS -> "keypad_index"
      [] IsDraw(f) /\ RowsOutside(f) # {} -> "sprite_outside_ram"
      [] OTHER -> "none"

\* bytes, words and flags an access outside an array may find
OutsideBytes == {0, 1, 238, 255}

OutsideWords == {0, 514, 65535}

\* values of rand()
RandValues == {0, 165, 255, 346}

\* the bytes the fetch may find past the array
FetchJunk(c, a) == IF a >= RAM_SIZE THEN OutsideBytes ELSE {0}

\* what the step on f (after the fetch) may read besides the machine
Oracles(f) ==
    [rnd    : IF TopNibble(f.inst.opcode) = 12 THEN RandValues ELSE {0},
     word   : IF IsReturn(f) /\ f.stack_pointer - 1 \notin 0..(STACK_SIZE - 1)
              THEN OutsideWords ELSE {0},
     key    : IF IsKeySkip(f) /\ VX(f) >= NUM_KEYS THEN BOOLEAN ELSE {FALSE},
     sprite : IF IsDraw(f) THEN [RowsOutside(f) -> OutsideBytes] ELSE {<<>>}]

\* the history of calls: a call adds its address and the stack it found,
\* a return drops the latest
CallsAfter(cs, c, f) ==
    IF IsCall(f)
    THEN Append(cs, [addr |-> c.PC, stack_pointer |-> c.stack_pointer, stack |-> c.stack])
    ELSE IF IsReturn(f) /\ cs # <<>> THEN SubSeq(cs, 1, Len(cs) - 1)
    ELSE cs

\* the history of draws: the DXYN the step executes, with where it starts
\* and the display it finds; empty after any other instruction
DrawAfter(c, f) ==
    IF IsDraw(f)
    THEN <<[opcode  |-> f.inst.opcode,
            I       |-> f.I,
            X_coord |-> VX(f) % WINDOW_WIDTH,
            Y_coord |-> VY(f) % WINDOW_HEIGHT,
            display |-> c.display]>>
    ELSE <<>>

-----------------------------------------------------------------------------
(* Programs *)

\* the two bytes of each word, high byte first
Bytes(words) ==
    [i \in 1..(2 * Len(words)) |->
        IF i % 2 = 1 THEN words[(i + 1) \div 2] \div 256 ELSE words[i \div 2] % 256]

\* 1NNN to the address of word number n (from 0) of a program
JumpToWord(n) == 4096 + ENTRY_POINT + 2 * n

\* a program closed by two jumps that each jump to themselves, so that it
\* neither runs nor skips into the memory after it
Closed(words) ==
    words \o <<JumpToWord(Len(words)), JumpToWord(Len(words) + 1)>>

RECURSIVE SeqsOfLen(_, _)
SeqsOfLen(S, n) ==
    IF n = 0 THEN {<<>>}
    ELSE {Append(q, e) : q \in SeqsOfLen(S, n - 1), e \in S}

\* 6XNN, 8XYN words
LoadWord(X, NN) == 24576 + 256 * X + NN

AluWord(X, Y, N) == 32768 + 256 * X + 16 * Y + N

\* VX, VY and VF loaded, then one 8XYN
AluPrograms ==
    {Closed(<<LoadWord(X, a), LoadWord(Y, b), LoadWord(15, f), AluWord(X, Y, N)>>) :
        X \in {0, 14, 15}, Y \in {1, 15}, a \in {1, 200}, b \in {1, 200},
        f \in {0, 1}, N \in {1, 4, 5, 6, 7, 14}}

\* calls and returns: 2202, 2204, 00EE
StackPool == {8706, 8708, 238}

StackPrograms ==
    {Closed(w) : w \in UNION {SeqsOfLen(StackPool, n) : n \in 1..(RomWords + 1)}}

\* 00E0, 01EE, 5011, 6105, BFFF, F10A
MiscPool == {224, 494, 20497, 24837, 49151, 61706}

MiscPrograms ==
    {Closed(w) : w \in UNION {SeqsOfLen(MiscPool, n) : n \in 1..RomWords}}

\* 6005 F015 / F007 3000 1204 / done: the delay timer set, then polled
\* until it reads 0
TimerPrograms ==
    {<<LoadWord(0, v), 61461, 61447, 12288, JumpToWord(2), JumpToWord(5)>> : v \in {0, 2}}

\* programs that leave the memory: 1FFE jumps to the last word and runs on
\* to address 4096, 1FFD jumps to the odd address 4093
OpenPrograms == {<<8190>>, <<8189>>}

Programs ==
    AluPrograms \cup StackPrograms \cup MiscPrograms \cup TimerPrograms \cup OpenPrograms

\* the file named on the command line
RomFiles ==
    {[exists |-> TRUE, bytes |-> Bytes(p)] : p \in Programs}
    \cup {[exists |-> FALSE, bytes |-> <<>>], [exists |-> TRUE, bytes |-> <<>>]}

\* ANNN, DXYN, 7XNN words
SetIWord(NNN) == 40960 + NNN

DrawWord(X, Y, N) == 53248 + 256 * X + 16 * Y + N

AddWord(X, NN) == 28672 + 256 * X + NN

\* the sprite rows FF 81 3C C3 that follow a display program
SpriteWords == <<65409, 15555>>

\* where SpriteWords lies in ram: after the 8 words and the 2 closing jumps
SpriteAddr == ENTRY_POINT + 20

\* p rows of SpriteWords drawn at (0, 0), then I, VX and V1 set and the
\* same DX1N executed twice, then 00E0
DisplayProgram(p, I, X, x, y, N) ==
    Closed(<<SetIWord(SpriteAddr), DrawWord(2, 2, p), SetIWord(I), LoadWord(X, x),
             LoadWord(1, y), DrawWord(X, 1, N), DrawWord(X, 1, N), 224>>) \o SpriteWords

\* sprites from the font (I = 0) and from SpriteWords, drawn inside the
\* display and across its right and bottom edges
DisplayPrograms ==
    {DisplayProgram(p, I, X, x, y, N) :
        p \in {0, 2}, I \in {0, SpriteAddr}, X \in {0, 15}, x \in {0, 126},
        y \in {0, 62}, N \in {0, 1, 5, 15}}

\* VX loaded with d, then FX29
FontPrograms ==
    {Closed(<<LoadWord(X, d), 61481 + 256 * X>>) : X \in {0, 15}, d \in 0..(NUM_KEYS - 1)}

\* CXNN
RandomPrograms ==
    {Closed(<<LoadWord(X, 255), 49152 + 256 * X + NN>>) :
        X \in {0, 15}, NN \in {0, 15, 165, 255}}

\* one instruction of each kind that is not 8XY4..8XYE or DXYN: 0123, 00E0,
\* 2208, 3005, 3F01, 4005, 5010, 6007, 7003, 7F03, 8010, 8011, 8012, 8013,
\* 9010, A123, C0FF, E09E, E0A1, F007, F00A, F015, F018, F01E, F029, F0FF,
\* FF15, FF1E
FramePool ==
    {291, 224, 8712, 12293, 16129, 16389, 20496, 24583, 28675, 32515, 32784,
     32785, 32786, 32787, 36880, 41251, 49407, 57502, 57505, 61447, 61450,
     61461, 61464, 61470, 61481, 61695, 65301, 65310}

\* BNNN that jumps to word n of a program with V0 = v
JumpV0Word(n, v) == 45056 + ENTRY_POINT + 2 * n - v

\* VF = 1, V0 = v and I = FFF, then the instruction (for BNNN the one that
\* jumps to the closing jump); 6F01 2208 with 00EE at 208; 6005 7003
FramePrograms ==
    {Closed(<<LoadWord(15, 1), LoadWord(0, v), SetIWord(4095), w>>) :
        v \in {5, 255}, w \in FramePool}
    \cup {Closed(<<LoadWord(15, 1), LoadWord(0, v), SetIWord(4095), JumpV0Word(4, v)>>) :
              v \in {5, 255}}
    \cup {Closed(<<LoadWord(15, 1), 8712>>) \o <<238>>,
          Closed(<<LoadWord(0, 5), AddWord(0, 3)>>)}

\* sprites that reach past the end of ram: AFFF D012, whose second row is
\* at 4096, and 60FF AFFF F01E D011, whose only row is at 4350
SpriteEdgePrograms ==
    {Closed(<<SetIWord(4095), DrawWord(0, 1, 2)>>),
     Closed(<<LoadWord(0, 255), SetIWord(4095), 61470, DrawWord(1, 1, 1)>>)}

\* the glyph of 0 drawn at (0, 0), V0 = 5, then one instruction of each
\* kind that is not a draw
ShownPrograms ==
    {Closed(<<SetIWord(0), DrawWord(1, 1, 5), LoadWord(0, 5), w>>) :
        w \in FramePool \cup {JumpV0Word(4, 5)}}

DisplayFiles ==
    {[exists |-> TRUE, bytes |-> Bytes(p)] :
        p \in DisplayPrograms \cup SpriteEdgePrograms \cup ShownPrograms}

\* a file of n bytes whose first word is 1200
FileOfSize(n) == [i \in 1..n |-> IF i = 1 THEN 18 ELSE 0]

\* files at and around the largest size init_chip8 accepts, an empty file
\* and a missing one
LoadFiles ==
    {[exists |-> TRUE, bytes |-> FileOfSize(n)] :
        n \in {0, 2, RAM_SIZE - ENTRY_POINT, RAM_SIZE - ENTRY_POINT + 1}}
    \cup {[exists |-> FALSE, bytes |-> <<>>]}

InstructionFiles ==
    {[exists |-> TRUE, bytes |-> Bytes(p)] :
        p \in FontPrograms \cup RandomPrograms \cup FramePrograms}
    \cup LoadFiles

-----------------------------------------------------------------------------
(* main *)

\* a main loop without the test for PAUSED
SkipsStep_Never(c) == FALSE

\* if(chip8.state == PAUSED) continue
SkipsStep(c) == c.state = "PAUSED"

\* while(chip8.state != QUIT)
LoopRuns(c) == c.state # "QUIT"

Init ==
    /\ chip8 = ZeroChip8
    /\ loc = "init_chip8"
    /\ fault = "none"
    /\ rom_file \in RomFiles
    /\ calls = <<>>
    /\ last_draw = <<>>

\* line 809
MainInitChip8 ==
    /\ loc = "init_chip8"
    /\ chip8' = InitChip8(chip8, rom_file)
    /\ loc' = IF RomLoads(rom_file) THEN "loop" ELSE "exit_failure"
    /\ UNCHANGED <<fault, rom_file, calls, last_draw>>

\* lines 818-821
MainHandleInput ==
    /\ loc = "loop"
    /\ LoopRuns(chip8)
    /\ \E evs \in EventBatches :
          LET c == HandleInput(chip8, evs)
          IN  /\ chip8' = c
              /\ loc' = IF SkipsStep(c) THEN "loop" ELSE "emulate"
    /\ UNCHANGED <<fault, rom_file, calls, last_draw>>

\* lines 824-829; update_screen reads the machine and changes nothing of it
MainEmulate ==
    /\ loc = "emulate"
    /\ \E b1 \in FetchJunk(chip8, chip8.PC), b2 \in FetchJunk(chip8, chip8.PC + 1) :
          LET f == Fetch(chip8, b1, b2)
          IN  /\ \E o \in Oracles(f) : chip8' = EmulateInstruction(chip8, b1, b2, o)
              /\ fault' = FaultOf(chip8, f)
              /\ loc' = IF FaultOf(chip8, f) = "none" THEN "loop" ELSE "undefined"
              /\ calls' = CallsAfter(calls, chip8, f)
              /\ last_draw' = DrawAfter(chip8, f)
    /\ UNCHANGED rom_file

\* lines 818, 833-835
MainExit ==
    /\ loc = "loop"
    /\ ~LoopRuns(chip8)
    /\ loc' = "exit_success"
    /\ UNCHANGED <<chip8, fault, rom_file, calls, last_draw>>

Next ==
    \/ MainInitChip8
    \/ MainHandleInput
    \/ MainEmulate
    \/ MainExit

Spec == Init /\ [][Next]_vars

\* the machine started on one of the timer programs
TimerInit ==
    /\ chip8 = ZeroChip8
    /\ loc = "init_chip8"
    /\ fault = "none"
    /\ rom_file \in {[exists |-> TRUE, bytes |-> Bytes(p)] : p \in TimerPrograms}
    /\ calls = <<>>
    /\ last_draw = <<>>

\* the main loop never stops by itself: a step that can be taken is taken
FairSpec == TimerInit /\ [][Next]_vars /\ WF_vars(Next)

\* the machine started on one of the display programs
DisplayInit ==
    /\ chip8 = ZeroChip8
    /\ loc = "init_chip8"
    /\ fault = "none"
    /\ rom_file \in DisplayFiles
    /\ calls = <<>>
    /\ last_draw = <<>>

DisplaySpec == DisplayInit /\ [][Next]_vars

\* the machine started on a single-instruction program or on a file at the
\* edge of what init_chip8 loads
InstructionInit ==
    /\ chip8 = ZeroChip8
    /\ loc = "init_chip8"
    /\ fault = "none"
    /\ rom_file \in InstructionFiles
    /\ calls = <<>>
    /\ last_draw = <<>>

InstructionSpec == InstructionInit /\ [][Next]_vars

-----------------------------------------------------------------------------
(* Properties *)

\* the machine after the fetch of the instruction at PC, PC inside ram
Fetched == Fetch(chip8, 0, 0)

\* a step of the main loop that runs emulate_instruction on an instruction
\* that lies inside ram
EmulateStep == loc = "emulate" /\ loc' # "emulate" /\ ~FetchOutside(chip8)

\* the step executes 8XYN with the given N
Executes8(N) ==
    EmulateStep /\ TopNibble(Fetched.inst.opcode) = 8 /\ Fetched.inst.N = N

\* C1: after 8XY4 with X in 0..E, VF is 1 if old VX + old VY > 255 and 0
\* otherwise, whatever VF held before.
C1_AddSetsFlag ==
    [][(Executes8(4) /\ Fetched.inst.X <= 14) =>
          chip8'.V[15] = IF VX(Fetched) + VY(Fetched) > 255 THEN 1 ELSE 0]_vars

\* C2: after 8XY5 with X in 0..E, VF is 1 if old VX >= old VY else 0 and VX
\* is (old VX - old VY) mod 256; after 8XY7, VF is 1 if old VY >= old VX
\* else 0 and VX is (old VY - old VX) mod 256.
C2_SubSetsFlag ==
    [][/\ (Executes8(5) /\ Fetched.inst.X <= 14) =>
             /\ chip8'.V[15] = IF VX(Fetched) >= VY(Fetched) THEN 1 ELSE 0
             /\ chip8'.V[Fetched.inst.X] = (256 + VX(Fetched) - VY(Fetched)) % 256
       /\ (Executes8(7) /\ Fetched.inst.X <= 14) =>
             /\ chip8'.V[15] = IF VY(Fetched) >= VX(Fetched) THEN 1 ELSE 0
             /\ chip8'.V[Fetched.inst.X] = (256 + VY(Fetched) - VX(Fetched)) % 256]_vars

\* C3: the call-stack depth is always between 0 and 12: a call at depth 12
\* and a return at depth 0 are rejected and leave the stack cursor inside
\* the stack.
C3_StackDepthBounded ==
    /\ chip8.stack_pointer \in 0..STACK_SIZE
    /\ fault \notin {"stack_overflow", "stack_underflow"}

\* C4: at the start of each step, before the fetch, PC is even and lies in
\* 0..4094.
C4_PCInRange ==
    loc = "emulate" => (chip8.PC % 2 = 0 /\ chip8.PC \in 0..(RAM_SIZE - 2))

\* C5: while the machine keeps executing instructions, a delay timer that
\* is above 0 eventually reaches 0.
C5_TimerReachesZero ==
    ([]<>(loc = "emulate")) => ((chip8.delay_timer > 0) ~> (chip8.delay_timer = 0))

\* C6: a step that executes FX0A with no key pressed leaves PC at the
\* address of the FX0A and the registers as they were; with a key pressed it
\* stores the lowest pressed index in VX and leaves PC 2 past the FX0A.
C6_KeyWait ==
    [][(EmulateStep /\ TopNibble(Fetched.inst.opcode) = 15 /\ Fetched.inst.NN = 10) =>
          IF \A k \in 0..(NUM_KEYS - 1) : ~chip8.keypad[k]
          THEN chip8'.PC = chip8.PC /\ chip8'.V = chip8.V
          ELSE /\ chip8'.PC = chip8.PC + 2
               /\ chip8.keypad[chip8'.V[Fetched.inst.X]]
               /\ \A k \in 0..(NUM_KEYS - 1) :
                     chip8.keypad[k] => chip8'.V[Fetched.inst.X] <= k]_vars

\* F10A at 0x200 has been resolved by key 1 while key 0 was not pressed
C6_Witness ==
    /\ loc = "loop" /\ fault = "none"
    /\ chip8.inst.opcode = 61706
    /\ chip8.PC = ENTRY_POINT + 2
    /\ chip8.keypad[1] /\ ~chip8.keypad[0]
    /\ chip8.V[1] = 1

\* the fields of the machine that instructions change
Machine(c) ==
    <<c.PC, c.V, c.I, c.stack, c.stack_pointer, c.display, c.delay_timer, c.sound_timer>>

\* C7: once a quit request has put the machine in the QUIT state, no
\* further instruction is executed: PC, registers, stack and display stay
\* as they were.
C7_NoStepAfterQuit ==
    [][(chip8.state = "QUIT" /\ loc # "init_chip8") =>
          Machine(chip8') = Machine(chip8)]_vars

\* C8: while the state is PAUSED no instruction is executed: PC, V0..VF, I,
\* the stack, the display and both timers stay as they are; only the keypad
\* and the state itself may change.
C8_PausedFrame ==
    [][chip8.state = "PAUSED" =>
          /\ Machine(chip8') = Machine(chip8)
          /\ chip8'.ram = chip8.ram
          /\ chip8'.inst = chip8.inst]_vars

\* the machine is paused after it has executed instructions and a key has
\* gone down
C8_Witness ==
    /\ chip8.state = "PAUSED"
    /\ chip8.PC # ENTRY_POINT
    /\ chip8.keypad[1]

\* the opcode forms the interpreter's instruction set lists
Recognized(opcode) ==
    LET i == Decode(opcode)
        n == TopNibble(opcode)
    IN  \/ opcode \in {224, 238}
        \/ n \in {1, 2, 3, 4, 6, 7, 10, 11, 12, 13}
        \/ n \in {5, 9} /\ i.N = 0
        \/ n = 8 /\ i.N \in {0, 1, 2, 3, 4, 5, 6, 7, 14}
        \/ n = 14 /\ i.NN \in {158, 161}
        \/ n = 15 /\ i.NN \in {7, 10, 21, 24, 30, 41}

\* C9: a step on an opcode that is not one of the listed forms changes
\* nothing but PC, which becomes the old PC + 2.
C9_UnrecognizedIsNoOp ==
    [][(EmulateStep /\ fault' = "none" /\ ~Recognized(Fetched.inst.opcode)) =>
          chip8' = [chip8 EXCEPT !.PC = chip8.PC + 2, !.inst = Fetched.inst]]_vars

\* C10: a 00EE executed while a call made at address A with fewer than 12
\* entries stacked is the latest that has not returned leaves PC = A + 2,
\* the depth as it was before that call and the entries below it as they
\* were; so nested calls return in last-in-first-out order.
C10_CallReturn ==
    [][(EmulateStep /\ Fetched.inst.opcode = 238 /\ calls # <<>>
          /\ calls[Len(calls)].stack_pointer < STACK_SIZE) =>
          LET call == calls[Len(calls)]
          IN  /\ chip8'.PC = call.addr + 2
              /\ chip8'.stack_pointer = call.stack_pointer
              /\ \A i \in 0..(call.stack_pointer - 1) :
                    chip8'.stack[i] = call.stack[i]]_vars

\* 2202 2204 00EE: the call at 0x202 has returned to 0x204 and then the
\* call at 0x200 to 0x202
C10_Witness ==
    /\ loc = "loop" /\ fault = "none"
    /\ chip8.inst.opcode = 238
    /\ chip8.PC = ENTRY_POINT + 2
    /\ chip8.stack_pointer = 0
    /\ chip8.stack[0] = ENTRY_POINT + 2
    /\ chip8.stack[1] = ENTRY_POINT + 4
    /\ calls = <<>>

\* the cells in which two displays differ
Changed(a, b) == (a \ b) \cup (b \ a)

Col(cell) == cell % WINDOW_WIDTH

Row(cell) == cell \div WINDOW_WIDTH

Min(a, b) == IF a <= b THEN a ELSE b

\* a step that executes DXYN
ExecutesDraw == EmulateStep /\ IsDraw(Fetched)

\* C11: DXYN starts at (VX mod 64, VY mod 32); a cell (col, row) changes
\* only if start_col <= col < min(start_col + 8, 64) and start_row <= row <
\* min(start_row + N, 32), so nothing is drawn on the opposite edge or on a
\* following row, and every cell that is on has an index in 0..2047.
C11_DrawClips ==
    [][ExecutesDraw =>
          LET start_col == chip8.V[Fetched.inst.X] % 64
              start_row == chip8.V[Fetched.inst.Y] % 32
          IN  /\ \A cell \in Changed(chip8.display, chip8'.display) :
                    /\ start_col <= Col(cell)
                    /\ Col(cell) < Min(start_col + 8, 64)
                    /\ start_row <= Row(cell)
                    /\ Row(cell) < Min(start_row + Fetched.inst.N, 32)
              /\ chip8'.display \subseteq 0..2047]_vars

\* a 15-row sprite drawn from (62, 30) on the clear display has changed the
\* cell in the last column of row 30 and nothing outside the two columns
\* and two rows that are left
C11_Witness ==
    /\ fault = "none"
    /\ last_draw # <<>>
    /\ chip8.inst.N = 15
    /\ last_draw[1].X_coord = 62 /\ last_draw[1].Y_coord = 30
    /\ last_draw[1].display = {}
    /\ 30 * 64 + 63 \in chip8.display
    /\ chip8.display \subseteq {30 * 64 + 62, 30 * 64 + 63, 31 * 64 + 62, 31 * 64 + 63}

\* C12: a DXYN executed right after the same DXYN, with the same I (so the
\* same sprite bytes) and the same start, leaves the display as it was
\* before the first of the two, whatever it held; and VF = 1 if the first
\* turned a cell on.
C12_DoubleDraw ==
    [][(/\ ExecutesDraw /\ fault' = "none"
        /\ last_draw # <<>>
        /\ last_draw[1].opcode = Fetched.inst.opcode
        /\ last_draw[1].I = chip8.I
        /\ last_draw[1].X_coord = chip8.V[Fetched.inst.X] % 64
        /\ last_draw[1].Y_coord = chip8.V[Fetched.inst.Y] % 32) =>
          /\ chip8'.display = last_draw[1].display
          /\ (chip8.display \ last_draw[1].display # {}) => chip8'.V[15] = 1]_vars

\* the second D01N of a display program has put the display back to the
\* rows FF 81 drawn at (0, 0) before the pair, turning cells off, with VF = 1
C12_Witness ==
    /\ fault = "none"
    /\ last_draw # <<>>
    /\ chip8.PC = ENTRY_POINT + 14
    /\ chip8.display = (0..7) \cup {64, 71}
    /\ last_draw[1].display \ chip8.display # {}
    /\ chip8.V[15] = 1

\* the cells under the set bits of the sprite that the DXYN at PC draws:
\* bit (7 - col) of the byte at I + row, for the columns and rows that are
\* left of the right edge and above the bottom edge
Ink ==
    LET start_col == chip8.V[Fetched.inst.X] % 64
        start_row == chip8.V[Fetched.inst.Y] % 32
    IN  {(start_row + row) * 64 + start_col + col :
            <<col, row>> \in
                {q \in (0..7) \X (0..(Fetched.inst.N - 1)) :
                    /\ start_col + q[1] < 64
                    /\ start_row + q[2] < 32
                    /\ (RamAt(chip8, chip8.I + q[2]) \div (2 ^ (7 - q[1]))) % 2 = 1}}

\* C13: on a display that is all off, DXYN turns on exactly the cells under
\* the set bits of the sprite and ends with VF = 0; on any display, VF is 1
\* after the draw if and only if a set bit landed on a cell that was on.
C13_DrawOnClear ==
    [][(ExecutesDraw /\ fault' = "none") =>
          /\ chip8.display = {} => (chip8'.display = Ink /\ chip8'.V[15] = 0)
          /\ chip8'.V[15] = IF Ink \cap chip8.display # {} THEN 1 ELSE 0]_vars

\* D015 with I = 0 and V0 = V1 = 0 on the clear display has drawn the
\* glyph of 0, F0 90 90 90 F0, and left VF = 0
C13_Witness ==
    /\ fault = "none"
    /\ last_draw # <<>>
    /\ last_draw[1].opcode = DrawWord(0, 1, 5)
    /\ last_draw[1].I = 0
    /\ last_draw[1].display = {}
    /\ chip8.display = {0, 1, 2, 3, 64, 67, 128, 131, 192, 195, 256, 257, 258, 259}
    /\ chip8.V[15] = 0

StandardGlyphs ==
    << <<240, 144, 144, 144, 240>>, <<32, 96, 32, 32, 112>>,
       <<240, 16, 240, 128, 240>>,  <<240, 16, 240, 16, 240>>,
       <<144, 144, 240, 16, 16>>,   <<240, 128, 240, 16, 240>>,
       <<240, 128, 240, 144, 240>>, <<240, 16, 32, 64, 64>>,
       <<240, 144, 240, 144, 240>>, <<240, 144, 240, 16, 240>>,
       <<240, 144, 240, 144, 144>>, <<224, 144, 224, 144, 224>>,
       <<240, 128, 128, 128, 240>>, <<224, 144, 144, 144, 224>>,
       <<240, 128, 240, 128, 240>>, <<240, 128, 240, 128, 128>> >>

\* the 5 bytes at d * 5 are the glyph of d, for every digit d
GlyphsInRam ==
    \A d \in 0..15 : \A k \in 0..4 : RamAt(chip8, d * 5 + k) = StandardGlyphs[d + 1][k + 1]

\* C15: in every state from initialization on, the 5 bytes at d * 5 are
\* the standard glyph of d for every digit d in 0..15 (nothing overwrites
\* memory 0..79), and FX29 with VX = d sets I = d * 5.
C15_FontAddressable ==
    /\ [](loc # "init_chip8" => GlyphsInRam)
    /\ [][(/\ EmulateStep /\ TopNibble(Fetched.inst.opcode) = 15
           /\ Fetched.inst.NN = 41 /\ chip8.V[Fetched.inst.X] <= 15) =>
             chip8'.I = chip8.V[Fetched.inst.X] * 5]_vars

\* 6009 F029: I = 45, where the glyph of 9 lies
C15_Witness ==
    /\ loc = "loop" /\ fault = "none"
    /\ chip8.inst.opcode = 61481
    /\ chip8.V[0] = 9
    /\ chip8.I = 45
    /\ \A k \in 0..4 : RamAt(chip8, chip8.I + k) = <<240, 144, 240, 16, 240>>[k + 1]

\* C16: 00E0 turns every display cell off, whatever the display held, and
\* changes nothing else of the machine except PC, which advances by 2 (and
\* the decoded instruction).
C16_ClearScreen ==
    [][(EmulateStep /\ Fetched.inst.opcode = 224) =>
          /\ chip8' = [chip8 EXCEPT !.display = {},
                                    !.PC = chip8.PC + 2,
                                    !.inst = Fetched.inst]
          /\ \A cell \in 0..2047 : cell \notin chip8'.display]_vars

\* the 00E0 of a display program has cleared the rows FF 81 that the two
\* draws before it had left at (0, 0)
C16_Witness ==
    /\ loc = "loop" /\ fault = "none"
    /\ rom_file.bytes = Bytes(DisplayProgram(2, 0, 0, 0, 62, 5))
    /\ chip8.inst.opcode = 224
    /\ chip8.PC = ENTRY_POINT + 16
    /\ chip8.display = {}

\* C17: a program of at most 3584 bytes is copied to memory from 0x200 on
\* and execution starts with PC = 0x200 and an empty stack; a longer
\* program or a missing file makes initialization fail, and after a failed
\* initialization no instruction is executed.
C17_LoadBound ==
    [][/\ loc = "init_chip8" =>
             IF rom_file.exists /\ Len(rom_file.bytes) <= 3584
             THEN /\ loc' = "loop"
                  /\ chip8'.PC = 512
                  /\ chip8'.stack_pointer = 0
                  /\ \A i \in 1..Len(rom_file.bytes) :
                        RamAt(chip8', 511 + i) = rom_file.bytes[i]
             ELSE loc' = "exit_failure"
       /\ loc = "exit_failure" => (loc' = "exit_failure" /\ chip8' = chip8)]_vars

\* C18: whatever the random source returns, after CXNN VX is a byte with
\* no bit set that is not set in NN; with NN = 00, VX = 0.
C18_RandomMasked ==
    [][(EmulateStep /\ TopNibble(Fetched.inst.opcode) = 12) =>
          /\ chip8'.V[Fetched.inst.X] \in 0..255
          /\ \A k \in 0..7 :
                (Fetched.inst.NN \div (2 ^ k)) % 2 = 0 =>
                    (chip8'.V[Fetched.inst.X] \div (2 ^ k)) % 2 = 0
          /\ Fetched.inst.NN = 0 => chip8'.V[Fetched.inst.X] = 0]_vars

\* 60FF C00F: the random value A5 masked with 0F has left V0 = 05
C18_Witness ==
    /\ loc = "loop" /\ fault = "none"
    /\ chip8.inst.opcode = 49167
    /\ chip8.V[0] = 5

\* C19: for X in 0..E and every Y, Y = F included, the value 8XY4, 8XY5 and
\* 8XY7 store in VX is computed from the VX and VY of before the
\* instruction: (VX + VY) mod 256, (VX - VY) mod 256, (VY - VX) mod 256.
C19_OperandsReadFirst ==
    [][/\ (Executes8(4) /\ Fetched.inst.X <= 14) =>
             chip8'.V[Fetched.inst.X] =
                 (chip8.V[Fetched.inst.X] + chip8.V[Fetched.inst.Y]) % 256
       /\ (Executes8(5) /\ Fetched.inst.X <= 14) =>
             chip8'.V[Fetched.inst.X] =
                 (256 + chip8.V[Fetched.inst.X] - chip8.V[Fetched.inst.Y]) % 256
       /\ (Executes8(7) /\ Fetched.inst.X <= 14) =>
             chip8'.V[Fetched.inst.X] =
                 (256 + chip8.V[Fetched.inst.Y] - chip8.V[Fetched.inst.X]) % 256]_vars

\* the flag instructions: 8XY4, 8XY5, 8XY6, 8XY7, 8XYE and DXYN
FlagInstruction(i) ==
    \/ TopNibble(i.opcode) = 8 /\ i.N \in {4, 5, 6, 7, 14}
    \/ TopNibble(i.opcode) = 13

\* the instructions that store a result in VX: 6XNN, 7XNN, 8XY0..8XY3,
\* CXNN, FX07 and FX0A
StoresInVX(i) ==
    \/ TopNibble(i.opcode) \in {6, 7, 12}
    \/ TopNibble(i.opcode) = 8 /\ i.N \in {0, 1, 2, 3}
    \/ TopNibble(i.opcode) = 15 /\ i.NN \in {7, 10}

\* C20: an instruction other than the flag instructions leaves VF as it
\* was, unless it stores its result in VX and X = F; 7XNN leaves VX = (VX +
\* NN) mod 256 and FX1E adds VX to I, both with VF unchanged; and 60 05
\* 70 03 run for 2 steps gives V0 = 8, PC = 0x204, VF = 0.
C20_FlagFrame ==
    /\ [][(EmulateStep /\ fault' = "none") =>
             /\ (~FlagInstruction(Fetched.inst)
                    /\ ~(StoresInVX(Fetched.inst) /\ Fetched.inst.X = 15)) =>
                   chip8'.V[15] = chip8.V[15]
             /\ (TopNibble(Fetched.inst.opcode) = 7 /\ Fetched.inst.X # 15) =>
                   /\ chip8'.V[Fetched.inst.X] =
                          (chip8.V[Fetched.inst.X] + Fetched.inst.NN) % 256
                   /\ chip8'.V[15] = chip8.V[15]
             /\ (TopNibble(Fetched.inst.opcode) = 15 /\ Fetched.inst.NN = 30) =>
                   /\ chip8'.I = (chip8.I + chip8.V[Fetched.inst.X]) % 65536
                   /\ chip8'.V[15] = chip8.V[15]]_vars
    /\ [](/\ rom_file.bytes = <<96, 5, 112, 3, 18, 4, 18, 6>>
          /\ loc = "loop" /\ chip8.inst.opcode = 28675
          => chip8.V[0] = 8 /\ chip8.PC = 516 /\ chip8.V[15] = 0)

\* 6F01 60FF AFFF 7003: V0 = FF + 03 has wrapped to 02 and VF is still 1
C20_Witness ==
    /\ loc = "loop" /\ fault = "none"
    /\ chip8.inst.opcode = 28675
    /\ chip8.PC = ENTRY_POINT + 8
    /\ chip8.V[0] = 2
    /\ chip8.V[15] = 1

\* C21: every sprite byte a DXYN reads, the byte at I + i for each row i it
\* draws, is at an address in 0..4095, whatever ANNN, FX1E or FX29 left
\* in I.
C21_SpriteReadsInside ==
    [][ExecutesDraw =>
          \A i \in 0..(Fetched.inst.N - 1) :
              (chip8.V[Fetched.inst.Y] % 32) + i < 32 => chip8.I + i <= 4095]_vars

\* C22: with VX in 0..15, EX9E leaves PC = old PC + 4 if keypad[VX] is
\* pressed and old PC + 2 if not, and EXA1 the other way round; with VX
\* above 15 the step reads no keypad entry outside 0..15.
C22_KeypadIndexInRange ==
    [][(/\ EmulateStep /\ TopNibble(Fetched.inst.opcode) = 14
        /\ Fetched.inst.NN \in {158, 161}) =>
          IF chip8.V[Fetched.inst.X] <= 15
          THEN chip8'.PC =
                  IF (Fetched.inst.NN = 158) = chip8.keypad[chip8.V[Fetched.inst.X]]
                  THEN chip8.PC + 4 ELSE chip8.PC + 2
          ELSE fault' # "keypad_index"]_vars

\* C23: a step of emulate_instruction changes the display only if its
\* opcode is 00E0 or DXYN, and never changes a keypad flag.
C23_DisplayKeypadFrame ==
    [][(EmulateStep /\ fault' = "none") =>
          /\ chip8'.keypad = chip8.keypad
          /\ ~(Fetched.inst.opcode = 224 \/ TopNibble(Fetched.inst.opcode) = 13) =>
                chip8'.display = chip8.display]_vars

\* A000 D115 6005 F00A: the F00A has stored key 1 in V0 with the glyph of 0
\* on the display and key 1 still pressed
C23_Witness ==
    /\ loc = "loop" /\ fault = "none"
    /\ chip8.inst.opcode = 61450
    /\ chip8.PC = ENTRY_POINT + 8
    /\ chip8.V[0] = 1
    /\ chip8.keypad[1]
    /\ chip8.display = {0, 1, 2, 3, 64, 67, 128, 131, 192, 195, 256, 257, 258, 259}

=============================================================================
